---- MODULE Spec2Model ----
(***************************************************************************)
(* School fee backend (src/app.py, src/models.py): per-session stores,     *)
(* carry-forward seeding, the payment allocator and receipt numbering.     *)
(*                                                                         *)
(* Session identifiers are sequences of one-character strings, so that     *)
(* split("_"), int(), str() and the filename sanitiser are computed as the *)
(* code computes them.  JSON values that the code coerces with int(x or 0) *)
(* are tagged records [t, n].                                              *)
(***************************************************************************)
EXTENDS Integers, Sequences, FiniteSets, TLC

(***************************************************************************)
(* Bounds of the model                                                     *)
(***************************************************************************)
\* largest due of an entry of the allocator's input ledgers
MaxDue == 2
\* largest payment handed to the allocator
MaxPay == 4
\* largest prior due handed to the allocator
MaxPrev == 2
\* largest student rowid a store hands out
MaxStudentId == 2
\* largest receipt rowid a store hands out
MaxReceiptId == 3

\* the highest previous_due that an extra fee is added up to
MaxFeeDue == 6

(***************************************************************************)
(* Python values                                                           *)
(***************************************************************************)
VInt(n) == [t |-> "int", n |-> n]
VNumStr(n) == [t |-> "numstr", n |-> n]
VNone == [t |-> "none", n |-> 0]
VAbsent == [t |-> "absent", n |-> 0]
VBadStr == [t |-> "badstr", n |-> 0]

\* int(x or 0): a missing key, None and 0 give 0, an int or a numeric string
\* gives its value
PyInt(v) == IF v.t \in {"int", "numstr"} THEN v.n ELSE 0

\* int(x or 0) raises ValueError on a non-numeric, non-empty string
PyIntRaises(v) == v.t = "badstr"

Min(a, b) == IF a <= b THEN a ELSE b

(***************************************************************************)
(* Month ledger                                                            *)
(***************************************************************************)
\* the allocation order of apply_payment_to_student_months_and_prev
MonthOrder_AnnualFirst ==
    << "Annual", "Jan", "Feb", "Mar", "Apr", "May", "Jun", "Jul", "Aug",
       "Sep", "Oct", "Nov", "Dec" >>

MonthOrder ==
    << "Jan", "Feb", "Mar", "Apr", "May", "Jun", "Jul", "Aug", "Sep",
       "Oct", "Nov", "Dec", "Annual" >>

\* the keys of default_month_structure()
MonthKeys ==
    { "Jan", "Feb", "Mar", "Apr", "May", "Jun", "Jul", "Aug", "Sep",
      "Oct", "Nov", "Dec", "Annual" }

\* a status key that the dict does not hold
AbsentStatus == "<absent>"

\* a dict entry {"status": s, "paid": p, "due": d}
Entry(s, p, d) == [dict |-> TRUE, status |-> s, paid |-> p, due |-> d]

\* a ledger value that is not a dict (None, a number, a string, a list)
NonDictEntry == [dict |-> FALSE, status |-> AbsentStatus, paid |-> VAbsent, due |-> VAbsent]

ZeroEntry == Entry("Due", VInt(0), VInt(0))

default_month_structure == [k \in MonthKeys |-> ZeroEntry]

EmptyLedger == [k \in {} |-> ZeroEntry]

ensure_months_has_annual(months) ==
    IF "Annual" \in DOMAIN months
    THEN months
    ELSE [k \in DOMAIN months \cup {"Annual"} |->
            IF k = "Annual" THEN ZeroEntry ELSE months[k]]

\* ensure_months_normalized raises when int() does
NormalizeRaises(months) ==
    \E k \in MonthKeys \cap DOMAIN months :
        /\ months[k].dict
        /\ PyIntRaises(months[k].paid) \/ PyIntRaises(months[k].due)

\* the entry with its due taken net of what was paid
NormalizeEntry_NetDue(e) ==
    Entry(IF e.status = AbsentStatus THEN "Due" ELSE e.status,
          VInt(PyInt(e.paid)), VInt(PyInt(e.due) - PyInt(e.paid)))

NormalizeEntry(e) ==
    Entry(IF e.status = AbsentStatus THEN "Due" ELSE e.status,
          VInt(PyInt(e.paid)), VInt(PyInt(e.due)))

ensure_months_normalized(months) ==
    [k \in DOMAIN months \cup MonthKeys |->
        IF k \in MonthKeys
        THEN IF k \notin DOMAIN months \/ ~months[k].dict
             THEN ZeroEntry
             ELSE NormalizeEntry(months[k])
        ELSE months[k]]

(***************************************************************************)
(* Payment allocator                                                       *)
(***************************************************************************)
\* one pass of the loop body for an entry with a positive due, the
\* remainder left as it was
PayEntry_KeepRemaining(rec, remaining) ==
    LET due_amt == PyInt(rec.due)
        to_pay == Min(remaining, due_amt)
    IN  [rec |-> Entry(IF due_amt - to_pay <= 0 THEN "Paid" ELSE "Partial",
                       VInt(PyInt(rec.paid) + to_pay),
                       VInt(IF due_amt - to_pay <= 0 THEN 0 ELSE due_amt - to_pay)),
         remaining |-> remaining]

\* one pass of the loop body for an entry with a positive due
PayEntry(rec, remaining) ==
    LET due_amt == PyInt(rec.due)
        to_pay == Min(remaining, due_amt)
    IN  [rec |-> Entry(IF due_amt - to_pay <= 0 THEN "Paid" ELSE "Partial",
                       VInt(PyInt(rec.paid) + to_pay),
                       VInt(IF due_amt - to_pay <= 0 THEN 0 ELSE due_amt - to_pay)),
         remaining |-> remaining - to_pay]

\* the loop over the order, from position i
RECURSIVE ApplyLoop(_, _, _)
ApplyLoop(months, remaining, i) ==
    IF i > Len(MonthOrder) \/ remaining <= 0
    THEN [months |-> months, remaining |-> remaining]
    ELSE LET m == MonthOrder[i]
             rec == months[m]
         IN  IF PyInt(rec.due) <= 0
             THEN ApplyLoop(months, remaining, i + 1)
             ELSE LET r == PayEntry(rec, remaining)
                  IN  ApplyLoop([months EXCEPT ![m] = r.rec], r.remaining, i + 1)

\* returns (months, prev_due, remaining)
apply_payment_to_student_months_and_prev(months, prev_due, payment) ==
    LET norm == ensure_months_normalized(months)
        pay_prev == Min(payment, prev_due)
        loop == ApplyLoop(norm, payment - pay_prev, 1)
    IN  [months |-> loop.months,
         prev_due |-> prev_due - pay_prev,
         remaining |-> loop.remaining]

(***************************************************************************)
(* Session identifiers and store files                                     *)
(***************************************************************************)
Digits == << "0", "1", "2", "3", "4", "5", "6", "7", "8", "9" >>

DigitSet == { Digits[i] : i \in 1..Len(Digits) }

\* the letters that occur in the session identifiers of the model
LetterSet == { "x" }

DigitValue(c) == (CHOOSE i \in 1..Len(Digits) : Digits[i] = c) - 1

DEFAULT_SESSION == << "2", "0", "2", "4", "_", "2", "5" >>

\* ch.isalnum() or ch in ("_", "-")
IsSafeChar(ch) == ch \in DigitSet \cup LetterSet \cup {"_", "-"}

\* the store file of a session: "school_" + safe + ".db", named by safe
session_db_filename(session_name) == SelectSeq(session_name, IsSafeChar)

\* session_name.split("_")
RECURSIVE SplitFrom(_, _, _)
SplitFrom(s, i, cur) ==
    IF i > Len(s) THEN << cur >>
    ELSE IF s[i] = "_" THEN << cur >> \o SplitFrom(s, i + 1, << >>)
    ELSE SplitFrom(s, i + 1, Append(cur, s[i]))

Split(s) == SplitFrom(s, 1, << >>)

\* int(tok) succeeds on an optional sign followed by one or more digits
IntOk(tok) ==
    LET body == IF Len(tok) > 0 /\ tok[1] \in {"-", "+"} THEN Tail(tok) ELSE tok
    IN  /\ Len(body) > 0
        /\ \A i \in 1..Len(body) : body[i] \in DigitSet

RECURSIVE DigitsToNat(_, _)
DigitsToNat(body, acc) ==
    IF body = << >> THEN acc
    ELSE DigitsToNat(Tail(body), 10 * acc + DigitValue(Head(body)))

ParseInt(tok) ==
    IF tok[1] = "-" THEN 0 - DigitsToNat(Tail(tok), 0)
    ELSE IF tok[1] = "+" THEN DigitsToNat(Tail(tok), 0)
    ELSE DigitsToNat(tok, 0)

\* str(n)
RECURSIVE NatToStr(_)
NatToStr(n) ==
    IF n < 10 THEN << Digits[n + 1] >>
    ELSE Append(NatToStr(n \div 10), Digits[(n % 10) + 1])

IntToStr(n) == IF n < 0 THEN << "-" >> \o NatToStr(0 - n) ELSE NatToStr(n)

\* Python's None for a session name
NoSession == << >>

\* the end token is the start year's digits from the third on
get_previous_session_name(session_name) ==
    LET parts == Split(session_name)
    IN  IF Len(parts) # 2 THEN NoSession
        ELSE IF ~IntOk(parts[1]) THEN NoSession
        ELSE LET prev_start == ParseInt(parts[1]) - 1
                 prev_end == prev_start + 1
                 str_end == IntToStr(prev_end)
             IN  IntToStr(prev_start) \o << "_" >> \o SubSeq(str_end, 3, Len(str_end))

(***************************************************************************)
(* Tables                                                                  *)
(***************************************************************************)
\* Python's None / SQL NULL in a text column
None == "None"

\* SQL NULL in receipt.student_id (row identifiers start at 1)
NullId == 0

MaxOf(S) == CHOOSE x \in S : \A y \in S : y <= x

\* INTEGER PRIMARY KEY without AUTOINCREMENT: the largest rowid plus one
NextId(rows) == IF rows = {} THEN 1 ELSE MaxOf({ r.id : r \in rows }) + 1

\* .first() / fetchone() of a query without ORDER BY: the lowest rowid
FirstRow(rows) == CHOOSE r \in rows : \A q \in rows : r.id <= q.id

\* the rows in rowid order
RECURSIVE RowsInOrder(_)
RowsInOrder(rows) ==
    IF rows = {} THEN << >>
    ELSE << FirstRow(rows) >> \o RowsInOrder(rows \ { FirstRow(rows) })

StudentsAt(rows, cls, roll) == { r \in rows : r.class_name = cls /\ r.roll = roll }

(***************************************************************************)
(* The stores: db is [files, student, receipt, copies]                     *)
(*   files    the store files that exist, by sanitised name                *)
(*   student  file -> the rows of its student table                        *)
(*   receipt  file -> the rows of its receipt table                        *)
(*   copies   file -> how often copy_students_from_previous ran for it     *)
(***************************************************************************)
StudentRow(id, name, father, cls, roll, previous_due, advance, months, annual_charge) ==
    [id |-> id, name |-> name, father |-> father, class_name |-> cls, roll |-> roll,
     previous_due |-> previous_due, advance |-> advance, months |-> months,
     annual_charge |-> annual_charge]

SetStudents(db, f, rows) == [db EXCEPT !.student[f] = rows]

SetReceipts(db, f, rows) == [db EXCEPT !.receipt[f] = rows]

\* normalize_months_structure raises when int() does, on any key
CarryRaises(months) ==
    \E k \in DOMAIN months :
        /\ months[k].dict
        /\ PyIntRaises(months[k].paid) \/ PyIntRaises(months[k].due)

\* the due of one value of normalize_months_structure's result
CarryDue(e) == IF e.dict THEN PyInt(e.due) ELSE 0

RECURSIVE SumDue(_, _)
SumDue(months, keys) ==
    IF keys = {} THEN 0
    ELSE LET k == CHOOSE x \in keys : TRUE
         IN  CarryDue(months[k]) + SumDue(months, keys \ {k})

\* the carry with the student's own previous_due added to it
calc_carry_forward_amount_WithPrev(student_row) ==
    SumDue(student_row.months, DOMAIN student_row.months) + student_row.previous_due

\* the sum of due over every key of the stored ledger
calc_carry_forward_amount(student_row) ==
    SumDue(student_row.months, DOMAIN student_row.months)

\* the insert loop of copy_students_from_previous over prev_students; ok is
\* FALSE when a row raised, which rolls the whole transaction back
RECURSIVE SeedLoop(_, _)
SeedLoop(prev_students, rows) ==
    IF prev_students = << >> THEN [ok |-> TRUE, rows |-> rows]
    ELSE LET s == Head(prev_students)
         IN  IF StudentsAt(rows, s.class_name, s.roll) # {}
             THEN SeedLoop(Tail(prev_students), rows)
             ELSE IF CarryRaises(s.months)
             THEN [ok |-> FALSE, rows |-> rows]
             ELSE SeedLoop(Tail(prev_students),
                           rows \cup { StudentRow(NextId(rows), s.name, s.father,
                                           s.class_name, s.roll,
                                           calc_carry_forward_amount(s), 0,
                                           ensure_months_normalized(default_month_structure),
                                           0) })

\* get_engine_for_session(prev) and get_engine_for_session(new) find their
\* files present and create nothing
copy_students_from_previous(db, new_session_name) ==
    LET prev == get_previous_session_name(new_session_name)
        newf == session_db_filename(new_session_name)
        prevf == session_db_filename(prev)
        ran == [db EXCEPT !.copies[newf] = @ + 1]
    IN  IF prev = NoSession THEN ran
        ELSE IF prevf \notin db.files THEN ran
        ELSE LET prev_students == RowsInOrder(db.student[prevf])
                 seeded == SeedLoop(prev_students, db.student[newf])
             IN  IF seeded.ok THEN SetStudents(ran, newf, seeded.rows) ELSE ran

\* created, decided anew on every call
Created_Always(db, session_name) == TRUE

\* created = not os.path.exists(db_file)
Created(db, session_name) == session_db_filename(session_name) \notin db.files

\* open(db_file, "a") and create_all: an existing file keeps its tables
TouchFile(db, f) ==
    [files |-> db.files \cup {f},
     student |-> [g \in db.files \cup {f} |-> IF g \in db.files THEN db.student[g] ELSE {}],
     receipt |-> [g \in db.files \cup {f} |-> IF g \in db.files THEN db.receipt[g] ELSE {}],
     copies |-> [g \in db.files \cup {f} |-> IF g \in db.files THEN db.copies[g] ELSE 0]]

ensure_session_db_exists(db, session_name) ==
    IF Created(db, session_name)
    THEN copy_students_from_previous(TouchFile(db, session_db_filename(session_name)),
                                     session_name)
    ELSE db

(***************************************************************************)
(* Request handlers: each gives [db, resp], the stores and the response    *)
(***************************************************************************)
\* a receipt number f"{sname}-{cls}-{roll}-{seq:06d}": the padded counter is
\* the text after the last "-", so two numbers are equal exactly when their
\* four parts are
ReceiptNumber(sname, cls, roll, seq) ==
    [session |-> sname, class_name |-> cls, roll |-> roll, seq |-> seq]

NoNumber == ReceiptNumber(NoSession, None, None, 0)

Resp(code, success, message) ==
    [code |-> code, success |-> success, message |-> message, receipt_number |-> NoNumber]

RespNumber(message, number) ==
    [code |-> 200, success |-> TRUE, message |-> message, receipt_number |-> number]

\* ---- /student/add ------------------------------------------------------
add_student(db, sname, data) ==
    LET f == session_db_filename(sname)
        rows == db.student[f]
        months == ensure_months_normalized(ensure_months_has_annual(data.months))
    IN  IF sname = DEFAULT_SESSION
        THEN IF StudentsAt(rows, data.class_name, data.roll) # {}
             THEN [db |-> db, resp |-> Resp(200, FALSE, "Student exists")]
             ELSE IF NormalizeRaises(data.months)
             THEN [db |-> db, resp |-> Resp(500, FALSE, "error")]
             ELSE [db |-> SetStudents(db, f, rows \cup
                            { StudentRow(NextId(rows), data.name, data.father,
                                  data.class_name, data.roll, data.previous_due,
                                  data.advance, months, 0) }),
                   resp |-> Resp(200, TRUE, "added")]
        ELSE IF NormalizeRaises(data.months)
             THEN [db |-> db, resp |-> Resp(500, FALSE, "error")]
             ELSE IF StudentsAt(rows, data.class_name, data.roll) # {}
             THEN [db |-> db, resp |-> Resp(200, FALSE, "Student exists")]
             ELSE [db |-> SetStudents(db, f, rows \cup
                            { StudentRow(NextId(rows), data.name, data.father,
                                  data.class_name, data.roll, data.previous_due,
                                  data.advance, months, PyInt(months["Annual"].paid)) }),
                   resp |-> Resp(200, TRUE, "added")]

\* ---- /update_student ---------------------------------------------------
\* sdata.get(key, default): sdata.has names the keys the payload holds
Get(sdata, key, default) == IF key \in sdata.has THEN sdata[key] ELSE default

update_student(db, sname, class_name, roll, sdata) ==
    LET f == session_db_filename(sname)
        rows == db.student[f]
        hit == StudentsAt(rows, class_name, roll)
    IN  IF sname = DEFAULT_SESSION
        THEN IF hit = {}
             THEN [db |-> db, resp |-> Resp(404, FALSE, "Student not found")]
             ELSE LET st == FirstRow(hit)
                      raw == Get(sdata, "months", st.months)
                      months == ensure_months_normalized(ensure_months_has_annual(raw))
                  IN  IF NormalizeRaises(raw)
                      THEN [db |-> db, resp |-> Resp(500, FALSE, "error")]
                      ELSE [db |-> SetStudents(db, f, (rows \ {st}) \cup
                                     { StudentRow(st.id,
                                           Get(sdata, "name", st.name),
                                           Get(sdata, "father", st.father),
                                           Get(sdata, "class_name", st.class_name),
                                           Get(sdata, "roll", st.roll),
                                           Get(sdata, "previous_due", st.previous_due),
                                           Get(sdata, "advance", st.advance),
                                           months, st.annual_charge) }),
                            resp |-> Resp(200, TRUE, "Updated")]
        ELSE LET raw == Get(sdata, "months", EmptyLedger)
                 months == ensure_months_normalized(ensure_months_has_annual(raw))
             IN  IF NormalizeRaises(raw)
                 THEN [db |-> db, resp |-> Resp(500, FALSE, "error")]
                 ELSE [db |-> SetStudents(db, f, (rows \ hit) \cup
                                { StudentRow(st.id,
                                      Get(sdata, "name", None),
                                      Get(sdata, "father", None),
                                      Get(sdata, "class_name", class_name),
                                      Get(sdata, "roll", roll),
                                      Get(sdata, "previous_due", 0),
                                      Get(sdata, "advance", 0),
                                      months, PyInt(months["Annual"].paid))
                                  : st \in hit }),
                       resp |-> Resp(200, TRUE, "Updated")]

\* ---- /student/delete ---------------------------------------------------
delete_student(db, sname, cls, roll) ==
    LET f == session_db_filename(sname)
        rows == db.student[f]
        hit == StudentsAt(rows, cls, roll)
    IN  IF sname = DEFAULT_SESSION
        THEN IF hit = {}
             THEN [db |-> db, resp |-> Resp(404, FALSE, "Not found")]
             ELSE LET st == FirstRow(hit)
                      kept == { r \in db.receipt[f] : r.student_id # st.id }
                  IN  [db |-> SetStudents(SetReceipts(db, f, kept), f, rows \ {st}),
                       resp |-> Resp(200, TRUE, "Deleted")]
        ELSE [db |-> SetStudents(
                        SetReceipts(db, f, { r \in db.receipt[f] :
                                               ~(r.class_name = cls /\ r.roll = roll) }),
                        f, rows \ hit),
              resp |-> Resp(200, TRUE, "Deleted")]

\* ---- /receipt/add ------------------------------------------------------
\* the counter taken as the number of receipts plus one
ReceiptSeq_Count(rows) == Cardinality(rows) + 1

\* seq = (last.id + 1) if last else 1, last the receipt of the highest id
ReceiptSeq(rows) == IF rows = {} THEN 1 ELSE MaxOf({ r.id : r \in rows }) + 1

ReceiptRow(id, data, number) ==
    [id |-> id, student_id |-> NullId, name |-> data.name, father |-> data.father,
     class_name |-> data.class_name, roll |-> data.roll, total_paid |-> data.totalPaid,
     receipt_key |-> data.receiptKey, receipt_number |-> number]

ReceiptsWithKey(rows, key) == { r \in rows : r.receipt_key = key }

\* the duplicate check skipped
IsReplay_Never(rows, key) == FALSE

\* the duplicate check: a receipt with this receipt_key exists
IsReplay(rows, key) == ReceiptsWithKey(rows, key) # {}

\* the student update of add_receipt; the default store has no
\* student.annual_charge column, the other stores set it
ApplyToStudent(db, sname, data) ==
    LET f == session_db_filename(sname)
        rows == db.student[f]
        hit == StudentsAt(rows, data.class_name, data.roll)
    IN  IF hit = {} THEN db
        ELSE LET st == FirstRow(hit)
                 r == apply_payment_to_student_months_and_prev(
                          st.months, st.previous_due, data.totalPaid)
             IN  SetStudents(db, f, (rows \ {st}) \cup
                    { [st EXCEPT !.months = r.months,
                                 !.previous_due = r.prev_due,
                                 !.annual_charge =
                                     IF sname = DEFAULT_SESSION THEN @
                                     ELSE PyInt(r.months["Annual"].paid)] })

\* a receipt refused when its student is not in the store
add_receipt_RequireStudent(db, sname, data) ==
    LET f == session_db_filename(sname)
        rows == db.receipt[f]
    IN  IF IsReplay(rows, data.receiptKey)
        THEN [db |-> db,
              resp |-> RespNumber("Duplicate ignored",
                           FirstRow(ReceiptsWithKey(rows, data.receiptKey)).receipt_number)]
        ELSE IF StudentsAt(db.student[f], data.class_name, data.roll) = {}
        THEN [db |-> db, resp |-> Resp(404, FALSE, "Student not found")]
        ELSE LET number == ReceiptNumber(sname, data.class_name, data.roll,
                                         ReceiptSeq(rows))
                 saved == SetReceipts(db, f,
                              rows \cup { ReceiptRow(NextId(rows), data, number) })
             IN  [db |-> ApplyToStudent(saved, sname, data),
                  resp |-> RespNumber("Receipt saved", number)]

\* both branches run the same steps: the default one through the ORM with a
\* commit after the insert, the other in one transaction
add_receipt(db, sname, data) ==
    LET f == session_db_filename(sname)
        rows == db.receipt[f]
    IN  IF IsReplay(rows, data.receiptKey)
        THEN [db |-> db,
              resp |-> RespNumber("Duplicate ignored",
                           FirstRow(ReceiptsWithKey(rows, data.receiptKey)).receipt_number)]
        ELSE LET number == ReceiptNumber(sname, data.class_name, data.roll,
                                         ReceiptSeq(rows))
                 saved == SetReceipts(db, f,
                              rows \cup { ReceiptRow(NextId(rows), data, number) })
             IN  [db |-> ApplyToStudent(saved, sname, data),
                  resp |-> RespNumber("Receipt saved", number)]

\* ---- /receipt/delete/<id> and /receipt/delete_all -----------------------
delete_receipt(db, sname, id) ==
    LET f == session_db_filename(sname)
        rows == db.receipt[f]
    IN  IF sname = DEFAULT_SESSION /\ { r \in rows : r.id = id } = {}
        THEN [db |-> db, resp |-> Resp(404, FALSE, "Receipt not found")]
        ELSE [db |-> SetReceipts(db, f, { r \in rows : r.id # id }),
              resp |-> Resp(200, TRUE, "Receipt deleted")]

delete_all_receipts(db, sname) ==
    [db |-> SetReceipts(db, session_db_filename(sname), {}),
     resp |-> Resp(200, TRUE, "All deleted")]

\* ---- /students ---------------------------------------------------------
get_students(db, sname) == [db |-> db, resp |-> Resp(200, TRUE, "students")]

\* ---- /session/create_auto ----------------------------------------------
\* s, e = from_session.split("_"); int(s) + 1; int(e) + 1
AutoSessionOk(from_session) ==
    LET parts == Split(from_session)
    IN  Len(parts) = 2 /\ IntOk(parts[1]) /\ IntOk(parts[2])

\* f"{s}_{str(e)[-2:]}"
AutoSessionName(from_session) ==
    LET parts == Split(from_session)
        e == IntToStr(ParseInt(parts[2]) + 1)
    IN  IntToStr(ParseInt(parts[1]) + 1) \o << "_" >>
            \o SubSeq(e, IF Len(e) > 2 THEN Len(e) - 1 ELSE 1, Len(e))

create_auto_session(db, from_session, extra_fee) ==
    IF ~AutoSessionOk(from_session)
    THEN [db |-> db, resp |-> Resp(400, FALSE, "Invalid session format")]
    ELSE LET new_session == AutoSessionName(from_session)
             f == session_db_filename(new_session)
             made == ensure_session_db_exists(db, new_session)
         IN  [db |-> IF extra_fee = 0 THEN made
                     ELSE SetStudents(made, f,
                              { [r EXCEPT !.previous_due = @ + extra_fee] :
                                  r \in made.student[f] }),
              resp |-> Resp(200, TRUE, "created")]

(***************************************************************************)
(* State                                                                   *)
(***************************************************************************)
VARIABLES
    files,      \* the store files under sessions/, by sanitised name
    student,    \* file -> rows of its student table
    receipt,    \* file -> rows of its receipt table
    copies,     \* file -> calls of copy_students_from_previous for it
    issued,     \* file -> the receipt numbers add_receipt has assigned in it
    home,       \* the session the client's writing requests name (X-Session)
    request,    \* the request whose response is being sent, or NoRequest
    response,   \* that response, or NoResponse
    a_months,   \* allocator call: the months argument
    a_prev_due, \* allocator call: the prev_due argument
    a_payment,  \* allocator call: the payment argument
    a_result,   \* allocator call: the tuple returned
    a_ledger,   \* allocator call: the dict the caller passed as months
    a_pc,       \* allocator call: "idle", "call" or "done"
    t_pc,       \* thread -> where its add_receipt stands
    t_data,     \* thread -> the payload of its request
    t_seq,      \* thread -> the seq it computed from the last receipt id
    t_student,  \* thread -> the student row it read for the update
    t_resp,     \* thread -> its response
    l_months,   \* ledger call: the ledger handed to the ledger functions
    l_out,      \* ledger call: what the calls returned, [norm, again, carry]
    l_pc,       \* ledger call: "idle", "new", "normalized", "again" or "done"
    s_pc,       \* thread -> where its first request for the next session stands
    s_created,  \* thread -> its created flag of ensure_session_db_exists
    s_todo,     \* thread -> the prev_students it has still to copy
    s_pending,  \* thread -> the rows it inserted and has not committed
    s_lock      \* the thread that holds the new store's write lock, or NoThread

storeVars == << files, student, receipt, copies, issued >>

reqVars == << home, request, response >>

applyVars == << a_months, a_prev_due, a_payment, a_result, a_ledger, a_pc >>

threadVars == << t_pc, t_data, t_seq, t_student, t_resp >>

ledgerVars == << l_months, l_out, l_pc >>

seedVars == << s_pc, s_created, s_todo, s_pending, s_lock >>

vars == << files, student, receipt, copies, issued, home, request, response,
           a_months, a_prev_due, a_payment, a_result, a_ledger, a_pc,
           t_pc, t_data, t_seq, t_student, t_resp,
           l_months, l_out, l_pc,
           s_pc, s_created, s_todo, s_pending, s_lock >>

DB == [files |-> files, student |-> student, receipt |-> receipt, copies |-> copies]

NoRequest == [route |-> "none"]

NoResponse == Resp(0, FALSE, "none")

NoResult == [months |-> EmptyLedger, prev_due |-> 0, remaining |-> 0]

\* the request threads of the server (app.run serves each request in a thread)
Threads == { 1, 2 }

NoData == [receiptKey |-> None]

NoRow == [id |-> NullId]

(***************************************************************************)
(* Inputs                                                                  *)
(***************************************************************************)
Session2025 == << "2", "0", "2", "5", "_", "2", "6" >>

Session2026 == << "2", "0", "2", "6", "_", "2", "7" >>

\* the sessions a client writes to; it also reads the session after its own
HomeSessions == { DEFAULT_SESSION, Session2025 }

\* a months payload that names two entries, the rest left to normalisation
LedgerJanAnnual ==
    [k \in {"Jan", "Annual"} |->
        IF k = "Jan"
        THEN [dict |-> TRUE, status |-> AbsentStatus, paid |-> VAbsent, due |-> VInt(2)]
        ELSE [dict |-> TRUE, status |-> "Due", paid |-> VInt(0), due |-> VInt(1)]]

Classes == { "A" }

Rolls == { "1", "2" }

StudentOne ==
    [name |-> "n1", father |-> "f1", class_name |-> "A", roll |-> "1",
     previous_due |-> 1, advance |-> 0, months |-> LedgerJanAnnual]

StudentTwo ==
    [name |-> "n2", father |-> "f2", class_name |-> "A", roll |-> "2",
     previous_due |-> 0, advance |-> 1, months |-> EmptyLedger]

StudentPayloads == { StudentOne, StudentTwo }

SData(has, name, roll, previous_due, months) ==
    [has |-> has, name |-> name, father |-> None, class_name |-> None, roll |-> roll,
     previous_due |-> previous_due, advance |-> 0, months |-> months]

UpdatePayloads ==
    { SData({"roll"}, None, "1", 0, EmptyLedger),
      SData({"name", "previous_due", "months"}, "n3", None, 2, LedgerJanAnnual) }

ReceiptKeys == { "k1", "k2" }

Payments == { 1, 3 }

ReceiptPayload(roll, paid, key) ==
    [name |-> "n1", father |-> "f1", class_name |-> "A", roll |-> roll,
     totalPaid |-> paid, receiptKey |-> key]

\* receipts for student (A, 1), and one for (A, 2)
ReceiptPayloads ==
    { ReceiptPayload("1", p, k) : p \in Payments, k \in ReceiptKeys }
        \cup { ReceiptPayload("2", 1, "k2") }

(***************************************************************************)
(* Initial state: the default session's store is made at start-up          *)
(***************************************************************************)
InitStores ==
    /\ files = { session_db_filename(DEFAULT_SESSION) }
    /\ student = [f \in files |-> {}]
    /\ receipt = [f \in files |-> {}]
    /\ copies = [f \in files |-> 0]
    /\ issued = [f \in files |-> {}]
    /\ request = NoRequest
    /\ response = NoResponse

InitApplyIdle ==
    /\ a_months = EmptyLedger
    /\ a_prev_due = 0
    /\ a_payment = 0
    /\ a_result = NoResult
    /\ a_ledger = EmptyLedger
    /\ a_pc = "idle"

InitThreadsIdle ==
    /\ t_pc = [t \in Threads |-> "idle"]
    /\ t_data = [t \in Threads |-> NoData]
    /\ t_seq = [t \in Threads |-> 0]
    /\ t_student = [t \in Threads |-> NoRow]
    /\ t_resp = [t \in Threads |-> NoResponse]

\* the result of a ledger function: the exception or the value
Raised == [raised |-> TRUE]

Returned(v) == [raised |-> FALSE, value |-> v]

NoOut == [norm |-> Raised, again |-> Raised, carry |-> Raised]

InitLedgerIdle ==
    /\ l_months = EmptyLedger
    /\ l_out = NoOut
    /\ l_pc = "idle"

NoThread == 0

InitSeedIdle ==
    /\ s_pc = [t \in Threads |-> "idle"]
    /\ s_created = [t \in Threads |-> FALSE]
    /\ s_todo = [t \in Threads |-> << >>]
    /\ s_pending = [t \in Threads |-> {}]
    /\ s_lock = NoThread

Init ==
    /\ InitStores
    /\ home \in HomeSessions
    /\ InitApplyIdle
    /\ InitThreadsIdle
    /\ InitLedgerIdle
    /\ InitSeedIdle

(***************************************************************************)
(* Requests: before_request_switch_db, then the route's handler            *)
(***************************************************************************)
before_request_switch_db(sname) == ensure_session_db_exists(DB, sname)

\* the receipt numbers handed out, with the one of a saved receipt added
Issued(db, req, resp) ==
    [f \in db.files |->
        (IF f \in files THEN issued[f] ELSE {})
        \cup (IF /\ req.route = "receipt/add"
                 /\ resp.message = "Receipt saved"
                 /\ f = session_db_filename(req.session)
              THEN { resp.receipt_number } ELSE {})]

Serve(req, out) ==
    /\ request = NoRequest
    /\ files' = out.db.files
    /\ student' = out.db.student
    /\ receipt' = out.db.receipt
    /\ copies' = out.db.copies
    /\ issued' = Issued(out.db, req, out.resp)
    /\ request' = req
    /\ response' = out.resp
    /\ UNCHANGED home
    /\ UNCHANGED applyVars
    /\ UNCHANGED ledgerVars
    /\ UNCHANGED seedVars
    /\ UNCHANGED threadVars

AddStudent(sname, data) ==
    /\ NextId(before_request_switch_db(sname).student[session_db_filename(sname)])
           <= MaxStudentId
    /\ Serve([route |-> "student/add", session |-> sname, data |-> data],
             add_student(before_request_switch_db(sname), sname, data))

UpdateStudent(sname, cls, roll, sdata) ==
    Serve([route |-> "update_student", session |-> sname, class_name |-> cls,
           roll |-> roll, sdata |-> sdata],
          update_student(before_request_switch_db(sname), sname, cls, roll, sdata))

DeleteStudent(sname, cls, roll) ==
    Serve([route |-> "student/delete", session |-> sname, class_name |-> cls, roll |-> roll],
          delete_student(before_request_switch_db(sname), sname, cls, roll))

AddReceipt(sname, data) ==
    /\ LET rows == before_request_switch_db(sname).receipt[session_db_filename(sname)]
       IN  IsReplay(rows, data.receiptKey) \/ NextId(rows) <= MaxReceiptId
    /\ Serve([route |-> "receipt/add", session |-> sname, data |-> data],
             add_receipt(before_request_switch_db(sname), sname, data))

DeleteReceipt(sname, id) ==
    Serve([route |-> "receipt/delete", session |-> sname, id |-> id],
          delete_receipt(before_request_switch_db(sname), sname, id))

DeleteAllReceipts(sname) ==
    Serve([route |-> "receipt/delete_all", session |-> sname],
          delete_all_receipts(before_request_switch_db(sname), sname))

GetStudents(sname) ==
    Serve([route |-> "students", session |-> sname],
          get_students(before_request_switch_db(sname), sname))

CreateAutoSession(sname, from_session, extra_fee) ==
    Serve([route |-> "session/create_auto", session |-> sname,
           from_session |-> from_session, extra_fee |-> extra_fee],
          create_auto_session(before_request_switch_db(sname), from_session, extra_fee))

\* the response leaves; the next request may come
Respond ==
    /\ request # NoRequest
    /\ request' = NoRequest
    /\ response' = NoResponse
    /\ UNCHANGED storeVars
    /\ UNCHANGED home
    /\ UNCHANGED applyVars
    /\ UNCHANGED ledgerVars
    /\ UNCHANGED seedVars
    /\ UNCHANGED threadVars

\* the session after the client's own
NextSession == AutoSessionName(home)

\* students, sessions and carry-forward; one receipt payload
Next ==
    \/ \E data \in StudentPayloads : AddStudent(home, data)
    \/ \E cls \in Classes, roll \in Rolls, sdata \in UpdatePayloads :
           UpdateStudent(home, cls, roll, sdata)
    \/ \E cls \in Classes, roll \in Rolls : DeleteStudent(home, cls, roll)
    \/ AddReceipt(home, ReceiptPayload("1", 3, "k1"))
    \/ \E sname \in {home, NextSession} : GetStudents(sname)
    \/ CreateAutoSession(home, home, 0)
    \/ Respond

Spec == Init /\ [][Next]_vars

\* receipts of one store, with one student to pay for
NextReceipts ==
    \/ AddStudent(home, StudentOne)
    \/ \E roll \in Rolls : DeleteStudent(home, "A", roll)
    \/ \E data \in ReceiptPayloads : AddReceipt(home, data)
    \/ \E id \in 1..MaxReceiptId : DeleteReceipt(home, id)
    \/ DeleteAllReceipts(home)
    \/ Respond

SpecReceipts == Init /\ [][NextReceipts]_vars

(***************************************************************************)
(* Session identifiers of every shape: the client's session is any of      *)
(* SessionIds, and students of the default session are there to be seeded  *)
(***************************************************************************)
\* X-Session values: well-formed, with an end that is not start + 1, with
\* two-digit years, with one or three tokens, with a token that is no
\* number, and with a character that the file name drops
SessionIds ==
    { Session2025,
      << "2", "0", "3", "0", "_", "3", "1" >>,
      << "2", "0", "2", "5", "_", "2", "7" >>,
      << "2", "5", "_", "2", "6" >>,
      << "2", "0", "2", "5" >>,
      << "2", "0", "2", "5", "_", "2", "6", "_", "x" >>,
      << "x", "_", "2", "6" >>,
      << "2", "0", "2", "5", "_", "x", "x" >>,
      << "2", "0", "2", "4", "_", "2", "5", "!" >> }

InitSessions ==
    /\ InitStores
    /\ home \in SessionIds
    /\ InitApplyIdle
    /\ InitThreadsIdle
    /\ InitLedgerIdle
    /\ InitSeedIdle

NextSessions ==
    \/ \E sname \in {DEFAULT_SESSION, home} : AddStudent(sname, StudentOne)
    \/ \E sname \in {DEFAULT_SESSION, home} : DeleteStudent(sname, "A", "1")
    \/ \E sname \in {DEFAULT_SESSION, home} : AddReceipt(sname, ReceiptPayload("1", 3, "k1"))
    \/ \E sname \in {DEFAULT_SESSION, home} : DeleteReceipt(sname, 1)
    \/ \E sname \in {DEFAULT_SESSION, home} : GetStudents(sname)
    \/ Respond

SpecSessions == InitSessions /\ [][NextSessions]_vars

(***************************************************************************)
(* add_receipt in two request threads, one step per statement that reads   *)
(* or writes the store. A SELECT runs outside a transaction; the default   *)
(* branch commits after the insert and again after the student update, the *)
(* other branch commits the insert and the student update together.        *)
(***************************************************************************)
HomeFile == session_db_filename(home)

\* receipts this thread may still insert
InFlight == { t \in Threads : t_pc[t] \in {"checked", "read"} }

\* before_request, the payload's parsing and the duplicate check
ReceiptCheck(t, data) ==
    LET db == before_request_switch_db(home)
        rows == db.receipt[HomeFile]
    IN  /\ t_pc[t] = "idle"
        /\ request = NoRequest
        /\ NextId(rows) + Cardinality(InFlight) <= MaxReceiptId
        /\ files' = db.files
        /\ student' = db.student
        /\ receipt' = db.receipt
        /\ copies' = db.copies
        /\ issued' = [f \in db.files |-> IF f \in files THEN issued[f] ELSE {}]
        /\ t_data' = [t_data EXCEPT ![t] = data]
        /\ IF IsReplay(rows, data.receiptKey)
           THEN /\ t_pc' = [t_pc EXCEPT ![t] = "done"]
                /\ t_resp' = [t_resp EXCEPT ![t] =
                       RespNumber("Duplicate ignored",
                           FirstRow(ReceiptsWithKey(rows, data.receiptKey)).receipt_number)]
           ELSE /\ t_pc' = [t_pc EXCEPT ![t] = "checked"]
                /\ UNCHANGED t_resp
        /\ UNCHANGED << t_seq, t_student >>
        /\ UNCHANGED reqVars
        /\ UNCHANGED applyVars
        /\ UNCHANGED ledgerVars
        /\ UNCHANGED seedVars

\* last = ... order_by(id desc).first(); seq = last.id + 1
ReceiptReadLast(t) ==
    /\ t_pc[t] = "checked"
    /\ t_seq' = [t_seq EXCEPT ![t] = ReceiptSeq(receipt[HomeFile])]
    /\ t_pc' = [t_pc EXCEPT ![t] = "read"]
    /\ UNCHANGED << t_data, t_student, t_resp >>
    /\ UNCHANGED storeVars
    /\ UNCHANGED reqVars
    /\ UNCHANGED applyVars
    /\ UNCHANGED ledgerVars
    /\ UNCHANGED seedVars

\* a receipt table without the UNIQUE constraint
UniqueViolation_Never(rows, key) == FALSE

\* receipt_key = db.Column(db.String(100), unique=True)
UniqueViolation(rows, key) == ReceiptsWithKey(rows, key) # {}

\* the INSERT; receipt_key is UNIQUE, so a key inserted meanwhile raises
ReceiptInsert(t) ==
    LET data == t_data[t]
        rows == receipt[HomeFile]
        number == ReceiptNumber(home, data.class_name, data.roll, t_seq[t])
        saved == SetReceipts(DB, HomeFile,
                     rows \cup { ReceiptRow(NextId(rows), data, number) })
    IN  /\ t_pc[t] = "read"
        /\ IF UniqueViolation(rows, data.receiptKey)
           THEN /\ t_pc' = [t_pc EXCEPT ![t] = "done"]
                /\ t_resp' = [t_resp EXCEPT ![t] = Resp(500, FALSE, "IntegrityError")]
                /\ UNCHANGED storeVars
           ELSE /\ receipt' = saved.receipt
                /\ issued' = [issued EXCEPT ![HomeFile] = @ \cup { number }]
                /\ UNCHANGED << files, copies >>
                /\ IF home = DEFAULT_SESSION
                   THEN /\ t_pc' = [t_pc EXCEPT ![t] = "inserted"]
                        /\ UNCHANGED << student, t_resp >>
                   ELSE /\ student' = ApplyToStudent(saved, home, data).student
                        /\ t_pc' = [t_pc EXCEPT ![t] = "done"]
                        /\ t_resp' = [t_resp EXCEPT ![t] =
                               RespNumber("Receipt saved", number)]
        /\ UNCHANGED << t_data, t_seq, t_student >>
        /\ UNCHANGED reqVars
        /\ UNCHANGED applyVars
        /\ UNCHANGED ledgerVars
        /\ UNCHANGED seedVars

\* default branch: Student.query.filter_by(class_name, roll).first()
ReceiptReadStudent(t) ==
    LET data == t_data[t]
        hit == StudentsAt(student[HomeFile], data.class_name, data.roll)
    IN  /\ t_pc[t] = "inserted"
        /\ IF hit = {}
           THEN /\ t_pc' = [t_pc EXCEPT ![t] = "done"]
                /\ t_resp' = [t_resp EXCEPT ![t] =
                       RespNumber("Receipt saved",
                           ReceiptNumber(home, data.class_name, data.roll, t_seq[t]))]
                /\ UNCHANGED t_student
           ELSE /\ t_pc' = [t_pc EXCEPT ![t] = "student"]
                /\ t_student' = [t_student EXCEPT ![t] = FirstRow(hit)]
                /\ UNCHANGED t_resp
        /\ UNCHANGED << t_data, t_seq >>
        /\ UNCHANGED storeVars
        /\ UNCHANGED reqVars
        /\ UNCHANGED applyVars
        /\ UNCHANGED ledgerVars
        /\ UNCHANGED seedVars

\* default branch: the allocation on the row read, then the commit, which
\* updates months and previous_due of the row with that id
ReceiptWriteStudent(t) ==
    LET data == t_data[t]
        st == t_student[t]
        r == apply_payment_to_student_months_and_prev(
                 st.months, st.previous_due, data.totalPaid)
    IN  /\ t_pc[t] = "student"
        /\ student' = [student EXCEPT ![HomeFile] =
               { IF row.id = st.id
                 THEN [row EXCEPT !.months = r.months, !.previous_due = r.prev_due]
                 ELSE row : row \in @ }]
        /\ t_pc' = [t_pc EXCEPT ![t] = "done"]
        /\ t_resp' = [t_resp EXCEPT ![t] =
               RespNumber("Receipt saved",
                   ReceiptNumber(home, data.class_name, data.roll, t_seq[t]))]
        /\ UNCHANGED << t_data, t_seq, t_student >>
        /\ UNCHANGED << files, receipt, copies, issued >>
        /\ UNCHANGED reqVars
        /\ UNCHANGED applyVars
        /\ UNCHANGED ledgerVars
        /\ UNCHANGED seedVars

\* the thread's response leaves
ReceiptReturn(t) ==
    /\ t_pc[t] = "done"
    /\ t_pc' = [t_pc EXCEPT ![t] = "idle"]
    /\ t_data' = [t_data EXCEPT ![t] = NoData]
    /\ t_seq' = [t_seq EXCEPT ![t] = 0]
    /\ t_student' = [t_student EXCEPT ![t] = NoRow]
    /\ t_resp' = [t_resp EXCEPT ![t] = NoResponse]
    /\ UNCHANGED storeVars
    /\ UNCHANGED reqVars
    /\ UNCHANGED applyVars
    /\ UNCHANGED ledgerVars
    /\ UNCHANGED seedVars

\* one student, and receipts for it from both threads
NextThreads ==
    \/ AddStudent(home, StudentOne)
    \/ Respond
    \/ \E t \in Threads, data \in ReceiptPayloads : ReceiptCheck(t, data)
    \/ \E t \in Threads : ReceiptReadLast(t)
    \/ \E t \in Threads : ReceiptInsert(t)
    \/ \E t \in Threads : ReceiptReadStudent(t)
    \/ \E t \in Threads : ReceiptWriteStudent(t)
    \/ \E t \in Threads : ReceiptReturn(t)

SpecThreads == Init /\ [][NextThreads]_vars

\* the stores after start-up: the default session's, empty
StartDB ==
    [files |-> { session_db_filename(DEFAULT_SESSION) },
     student |-> [f \in { session_db_filename(DEFAULT_SESSION) } |-> {}],
     receipt |-> [f \in { session_db_filename(DEFAULT_SESSION) } |-> {}],
     copies |-> [f \in { session_db_filename(DEFAULT_SESSION) } |-> 0]]

\* the stores after one POST /student/add for student (A, 1) in the session
EnrolledDB(sname) ==
    add_student(ensure_session_db_exists(StartDB, sname), sname, StudentOne).db

\* the student is in the home store before any receipt is recorded
InitPayThreads ==
    /\ home \in HomeSessions
    /\ files = EnrolledDB(home).files
    /\ student = EnrolledDB(home).student
    /\ receipt = EnrolledDB(home).receipt
    /\ copies = EnrolledDB(home).copies
    /\ issued = [f \in EnrolledDB(home).files |-> {}]
    /\ request = NoRequest
    /\ response = NoResponse
    /\ InitApplyIdle
    /\ InitThreadsIdle
    /\ InitLedgerIdle
    /\ InitSeedIdle

\* receipts for an enrolled student from both threads
NextPayThreads ==
    \/ \E t \in Threads, data \in ReceiptPayloads : ReceiptCheck(t, data)
    \/ \E t \in Threads : ReceiptReadLast(t)
    \/ \E t \in Threads : ReceiptInsert(t)
    \/ \E t \in Threads : ReceiptReadStudent(t)
    \/ \E t \in Threads : ReceiptWriteStudent(t)
    \/ \E t \in Threads : ReceiptReturn(t)

SpecPayThreads == InitPayThreads /\ [][NextPayThreads]_vars

\* a student whose months payload holds a key that is no month, with a due
\* that int() rejects; add_student stores the key as it came
StudentExam ==
    [name |-> "n2", father |-> "f2", class_name |-> "A", roll |-> "2",
     previous_due |-> 0, advance |-> 0,
     months |-> [k \in {"Exam"} |-> Entry("Due", VInt(0), VBadStr)]]

\* students of one session, and the first request for the session after it
NextCarry ==
    \/ \E data \in {StudentOne, StudentExam} : AddStudent(home, data)
    \/ \E roll \in Rolls : DeleteStudent(home, "A", roll)
    \/ \E sname \in {home, NextSession} : GetStudents(sname)
    \/ Respond

SpecCarry == Init /\ [][NextCarry]_vars

\* int(data["totalPaid"]) takes any integer: a refund, nothing, a payment
SignedPayments == { 0 - 1, 0, 1 }

\* receipts with a totalPaid of either sign for one student; a receipt stays,
\* so each key records one
NextSignedReceipts ==
    \/ AddStudent(home, StudentOne)
    \/ \E p \in SignedPayments, k \in ReceiptKeys :
           AddReceipt(home, ReceiptPayload("1", p, k))
    \/ DeleteStudent(home, "A", "1")
    \/ Respond

SpecSignedReceipts == Init /\ [][NextSignedReceipts]_vars

\* the extra fee of the create_auto requests
ExtraFee == 1

\* the fee keeps every previous_due of the next session's store in range
FeeInRange(extra_fee) ==
    session_db_filename(NextSession) \in files =>
        \A r \in student[session_db_filename(NextSession)] :
            r.previous_due + extra_fee <= MaxFeeDue

\* students of one session, and create_auto for the session after it, again
\* and again with one fee
NextAuto ==
    \/ \E data \in {StudentOne, StudentTwo} : AddStudent(home, data)
    \/ \E roll \in Rolls : DeleteStudent(home, "A", roll)
    \/ FeeInRange(ExtraFee) /\ CreateAutoSession(home, home, ExtraFee)
    \/ Respond

SpecAuto == Init /\ [][NextAuto]_vars

(***************************************************************************)
(* The first requests for the next session in two request threads: one     *)
(* step per statement of ensure_session_db_exists and of                   *)
(* copy_students_from_previous that reads or writes the files or a store.  *)
(* The copy into a non-default store is one transaction: it takes the      *)
(* store's write lock at its first INSERT and commits at the end; a SELECT *)
(* of another connection sees the committed rows only.                     *)
(***************************************************************************)
NewFile == session_db_filename(NextSession)

UnchangedButSeed ==
    /\ UNCHANGED reqVars
    /\ UNCHANGED applyVars
    /\ UNCHANGED threadVars
    /\ UNCHANGED ledgerVars

\* the rows of the new store that the thread's connection sees
Visible(t) == student[NewFile] \cup s_pending[t]

\* created = not os.path.exists(db_file)
SeedExists(t) ==
    /\ s_pc[t] = "idle"
    /\ s_created' = [s_created EXCEPT ![t] = Created(DB, NextSession)]
    /\ s_pc' = [s_pc EXCEPT ![t] = "exists"]
    /\ UNCHANGED << s_todo, s_pending, s_lock >>
    /\ UNCHANGED storeVars
    /\ UnchangedButSeed

\* open(db_file, "a").close() and create_all, when created
SeedMake(t) ==
    /\ s_pc[t] = "exists"
    /\ IF s_created[t]
       THEN LET db == TouchFile(DB, NewFile)
            IN  /\ files' = db.files
                /\ student' = db.student
                /\ receipt' = db.receipt
                /\ copies' = db.copies
                /\ issued' = [f \in db.files |-> IF f \in files THEN issued[f] ELSE {}]
                /\ s_pc' = [s_pc EXCEPT ![t] = "copy"]
       ELSE /\ UNCHANGED storeVars
            /\ s_pc' = [s_pc EXCEPT ![t] = "done"]
    /\ UNCHANGED << s_created, s_todo, s_pending, s_lock >>
    /\ UnchangedButSeed

\* copy_students_from_previous up to the list prev_students
SeedReadPrev(t) ==
    LET prev == get_previous_session_name(NextSession)
        prevf == session_db_filename(prev)
    IN  /\ s_pc[t] = "copy"
        /\ copies' = [copies EXCEPT ![NewFile] = @ + 1]
        /\ IF prev = NoSession \/ prevf \notin files
           THEN /\ s_pc' = [s_pc EXCEPT ![t] = "done"]
                /\ UNCHANGED s_todo
           ELSE /\ s_pc' = [s_pc EXCEPT ![t] = "loop"]
                /\ s_todo' = [s_todo EXCEPT ![t] = RowsInOrder(student[prevf])]
        /\ UNCHANGED << s_created, s_pending, s_lock >>
        /\ UNCHANGED << files, student, receipt, issued >>
        /\ UnchangedButSeed

\* SELECT id FROM student WHERE class_name = :cls AND roll = :roll
SeedCheck(t) ==
    /\ s_pc[t] = "loop"
    /\ s_todo[t] # << >>
    /\ IF StudentsAt(Visible(t), Head(s_todo[t]).class_name, Head(s_todo[t]).roll) # {}
       THEN /\ s_todo' = [s_todo EXCEPT ![t] = Tail(@)]
            /\ UNCHANGED s_pc
       ELSE /\ s_pc' = [s_pc EXCEPT ![t] = "insert"]
            /\ UNCHANGED s_todo
    /\ UNCHANGED << s_created, s_pending, s_lock >>
    /\ UNCHANGED storeVars
    /\ UnchangedButSeed

\* calc_carry_forward_amount and the INSERT, which waits for the write lock;
\* an exception rolls the transaction back
SeedInsert(t) ==
    LET st == Head(s_todo[t])
    IN  /\ s_pc[t] = "insert"
        /\ IF CarryRaises(st.months)
           THEN /\ s_pending' = [s_pending EXCEPT ![t] = {}]
                /\ s_lock' = IF s_lock = t THEN NoThread ELSE s_lock
                /\ s_pc' = [s_pc EXCEPT ![t] = "done"]
                /\ UNCHANGED s_todo
           ELSE /\ s_lock \in {NoThread, t}
                /\ s_pending' = [s_pending EXCEPT ![t] = @ \cup
                       { StudentRow(NextId(Visible(t)), st.name, st.father,
                             st.class_name, st.roll, calc_carry_forward_amount(st), 0,
                             ensure_months_normalized(default_month_structure), 0) }]
                /\ s_lock' = t
                /\ s_todo' = [s_todo EXCEPT ![t] = Tail(@)]
                /\ s_pc' = [s_pc EXCEPT ![t] = "loop"]
        /\ UNCHANGED s_created
        /\ UNCHANGED storeVars
        /\ UnchangedButSeed

\* the INSERT gives up waiting: "database is locked", the copy is abandoned
SeedBusy(t) ==
    /\ s_pc[t] = "insert"
    /\ s_lock \notin {NoThread, t}
    /\ s_pc' = [s_pc EXCEPT ![t] = "done"]
    /\ UNCHANGED << s_created, s_todo, s_pending, s_lock >>
    /\ UNCHANGED storeVars
    /\ UnchangedButSeed

\* the end of the with block: COMMIT
SeedCommit(t) ==
    /\ s_pc[t] = "loop"
    /\ s_todo[t] = << >>
    /\ student' = [student EXCEPT ![NewFile] = @ \cup s_pending[t]]
    /\ s_pending' = [s_pending EXCEPT ![t] = {}]
    /\ s_lock' = IF s_lock = t THEN NoThread ELSE s_lock
    /\ s_pc' = [s_pc EXCEPT ![t] = "done"]
    /\ UNCHANGED << s_created, s_todo >>
    /\ UNCHANGED << files, receipt, copies, issued >>
    /\ UnchangedButSeed

\* ensure_session_db_exists returns
SeedReturn(t) ==
    /\ s_pc[t] = "done"
    /\ s_pc' = [s_pc EXCEPT ![t] = "idle"]
    /\ s_created' = [s_created EXCEPT ![t] = FALSE]
    /\ s_todo' = [s_todo EXCEPT ![t] = << >>]
    /\ UNCHANGED << s_pending, s_lock >>
    /\ UNCHANGED storeVars
    /\ UnchangedButSeed

\* students of the client's session, and its next session resolved by both
\* threads
NextSeedThreads ==
    \/ \E data \in StudentPayloads : AddStudent(home, data)
    \/ Respond
    \/ \E t \in Threads : SeedExists(t)
    \/ \E t \in Threads : SeedMake(t)
    \/ \E t \in Threads : SeedReadPrev(t)
    \/ \E t \in Threads : SeedCheck(t)
    \/ \E t \in Threads : SeedInsert(t)
    \/ \E t \in Threads : SeedBusy(t)
    \/ \E t \in Threads : SeedCommit(t)
    \/ \E t \in Threads : SeedReturn(t)

SpecSeedThreads == Init /\ [][NextSeedThreads]_vars

(***************************************************************************)
(* The allocator on its own: one call on inputs drawn at the start         *)
(***************************************************************************)
\* months = months or {}: an empty dict is replaced by a new one; any other
\* dict is the object that ensure_months_normalized and the loop write to,
\* and the one returned
LedgerAfterCall(months, result) ==
    IF months = EmptyLedger THEN months ELSE result.months

FocusKeys == { "Jan", "Feb", "Dec", "Annual" }

InputEntries ==
    { Entry("Due", VInt(0), VInt(d)) : d \in (0 - 1)..MaxDue }
        \cup { Entry("Partial", VInt(1), VInt(1)), Entry("Paid", VInt(1), VInt(0)) }

\* a payload with a value that is no dict and a due given as a string
LedgerRaw ==
    [k \in {"Jan", "Feb"} |->
        IF k = "Jan" THEN NonDictEntry
        ELSE [dict |-> TRUE, status |-> "Due", paid |-> VNone, due |-> VNumStr(2)]]

\* Jan.due = 100 and Feb.due = 100
LedgerHundreds ==
    [k \in MonthKeys |->
        IF k \in {"Jan", "Feb"} THEN Entry("Due", VInt(0), VInt(100)) ELSE ZeroEntry]

ApplyLedgers ==
    { [k \in MonthKeys |-> IF k \in FocusKeys THEN e[k] ELSE ZeroEntry] :
        e \in [FocusKeys -> InputEntries] }
        \cup { EmptyLedger, LedgerJanAnnual, LedgerRaw }

ApplyInputs ==
    (ApplyLedgers \X ((0 - 1)..MaxPrev) \X ((0 - 1)..MaxPay))
        \cup { << LedgerHundreds, 50, 120 >>, << LedgerHundreds, 0, 100 >> }

InitApply ==
    /\ InitStores
    /\ home = DEFAULT_SESSION
    /\ \E in \in ApplyInputs :
           /\ a_months = in[1]
           /\ a_prev_due = in[2]
           /\ a_payment = in[3]
    /\ a_result = NoResult
    /\ a_ledger = a_months
    /\ a_pc = "call"
    /\ InitThreadsIdle
    /\ InitLedgerIdle
    /\ InitSeedIdle

ApplyCall ==
    /\ a_pc = "call"
    /\ a_result' = apply_payment_to_student_months_and_prev(a_months, a_prev_due, a_payment)
    /\ a_ledger' = LedgerAfterCall(a_months, a_result')
    /\ a_pc' = "done"
    /\ UNCHANGED << a_months, a_prev_due, a_payment >>
    /\ UNCHANGED storeVars
    /\ UNCHANGED reqVars
    /\ UNCHANGED threadVars
    /\ UNCHANGED ledgerVars
    /\ UNCHANGED seedVars

NextApply == ApplyCall

SpecApply == InitApply /\ [][NextApply]_vars

(***************************************************************************)
(* The ledger functions on their own: ensure_months_normalized, applied    *)
(* once and again, and calc_carry_forward_amount, on a ledger drawn at the *)
(* start                                                                   *)
(***************************************************************************)
\* two of the 13 keys and one key that is none of them
LedgerKeys == { "Jan", "Annual", "Exam" }

\* ints (one negative), a numeric string, None, a missing key, a string that
\* is no number, and a value that is no dict
LedgerValues ==
    { Entry("Due", VInt(0), VInt(d)) : d \in (0 - 1)..MaxDue }
        \cup { Entry("Paid", VInt(1), VInt(0)),
               Entry(AbsentStatus, VAbsent, VNumStr(2)),
               Entry("Due", VNone, VNone),
               Entry("Due", VInt(0), VBadStr),
               Entry("Due", VInt(0 - 1), VInt(0)),
               NonDictEntry }

LedgerInputs == UNION { [K -> LedgerValues] : K \in SUBSET LedgerKeys }

InitLedger ==
    /\ InitStores
    /\ home = DEFAULT_SESSION
    /\ InitApplyIdle
    /\ InitThreadsIdle
    /\ InitSeedIdle
    /\ l_months \in LedgerInputs
    /\ l_out = NoOut
    /\ l_pc = "new"

\* what a call of ensure_months_normalized gives
Normalized(months) ==
    IF NormalizeRaises(months) THEN Raised
    ELSE Returned(ensure_months_normalized(months))

UnchangedButLedger ==
    /\ UNCHANGED storeVars
    /\ UNCHANGED reqVars
    /\ UNCHANGED applyVars
    /\ UNCHANGED threadVars
    /\ UNCHANGED seedVars

NormalizeCall ==
    /\ l_pc = "new"
    /\ l_out' = [l_out EXCEPT !.norm = Normalized(l_months)]
    /\ l_pc' = "normalized"
    /\ UNCHANGED l_months
    /\ UnchangedButLedger

\* the ledger returned, normalised once more
NormalizeAgainCall ==
    /\ l_pc = "normalized"
    /\ ~l_out.norm.raised
    /\ l_out' = [l_out EXCEPT !.again = Normalized(l_out.norm.value)]
    /\ l_pc' = "again"
    /\ UNCHANGED l_months
    /\ UnchangedButLedger

\* calc_carry_forward_amount of a student row with the ledger
CarryCall ==
    /\ l_pc = "again" \/ (l_pc = "normalized" /\ l_out.norm.raised)
    /\ l_out' = [l_out EXCEPT !.carry =
           IF CarryRaises(l_months) THEN Raised
           ELSE Returned(calc_carry_forward_amount([months |-> l_months]))]
    /\ l_pc' = "done"
    /\ UNCHANGED l_months
    /\ UnchangedButLedger

NextLedger ==
    \/ NormalizeCall
    \/ NormalizeAgainCall
    \/ CarryCall

SpecLedger == InitLedger /\ [][NextLedger]_vars

(***************************************************************************)
(* Claims about the allocator (SpecApply)                                  *)
(***************************************************************************)
\* the order the specification gives: Jan .. Dec, then Annual
CalendarOrder ==
    << "Jan", "Feb", "Mar", "Apr", "May", "Jun", "Jul", "Aug", "Sep",
       "Oct", "Nov", "Dec", "Annual" >>

\* paid and due of the ledger handed in, read as the code reads them
PaidBefore(k) == ensure_months_normalized(a_months)[k].paid.n

DueBefore(k) == ensure_months_normalized(a_months)[k].due.n

PaidAfter(k) == a_result.months[k].paid.n

DueAfter(k) == a_result.months[k].due.n

RECURSIVE PaidIncrease(_)
PaidIncrease(i) ==
    IF i = 0 THEN 0
    ELSE PaidAfter(CalendarOrder[i]) - PaidBefore(CalendarOrder[i]) + PaidIncrease(i - 1)

\* C1: for a payment >= 0, the increases of paid over the 13 entries, plus
\* the decrease of the prior due, plus the remainder returned, add up to
\* exactly the payment.
C1_PaymentConserved ==
    (a_pc = "done" /\ a_payment >= 0) =>
        PaidIncrease(Len(CalendarOrder)) + (a_prev_due - a_result.prev_due)
            + a_result.remaining = a_payment

\* a call that split its payment over the prior due, two entries and a remainder
C1_Witness ==
    /\ a_pc = "done"
    /\ a_payment > 0
    /\ a_prev_due > a_result.prev_due
    /\ PaidAfter("Jan") > PaidBefore("Jan")
    /\ PaidAfter("Annual") > PaidBefore("Annual")
    /\ a_result.remaining > 0

\* C2: for a payment >= 0, no entry of the resulting ledger has a negative
\* due and the resulting prior due is not negative.
C2_NothingNegative ==
    (a_pc = "done" /\ a_payment >= 0) =>
        /\ a_result.prev_due >= 0
        /\ \A k \in MonthKeys : DueAfter(k) >= 0

\* C3: for a payment >= 0, an entry's paid increases only if the resulting
\* prior due is 0 and no earlier entry of the order Jan .. Dec, Annual has a
\* positive due left; prior due 50, Jan and Feb due 100, payment 120 give
\* prior due 0, Jan paid 70 due 30 Partial, Feb untouched, remainder 0.
C3_AllocationOrder ==
    (a_pc = "done" /\ a_payment >= 0) =>
        /\ \A i \in 1..Len(CalendarOrder) :
              PaidAfter(CalendarOrder[i]) > PaidBefore(CalendarOrder[i]) =>
                  /\ a_result.prev_due = 0
                  /\ \A j \in 1..(i - 1) : DueAfter(CalendarOrder[j]) <= 0
        /\ (a_months = LedgerHundreds /\ a_prev_due = 50 /\ a_payment = 120) =>
              /\ a_result.prev_due = 0
              /\ a_result.months["Jan"] = Entry("Partial", VInt(70), VInt(30))
              /\ a_result.months["Feb"] = a_months["Feb"]
              /\ a_result.remaining = 0

\* a call that paid off the prior due and Jan and went on into Feb
C3_Witness ==
    /\ a_pc = "done"
    /\ a_payment >= 0
    /\ a_prev_due > 0
    /\ DueBefore("Jan") > 0
    /\ DueAfter("Jan") = 0
    /\ PaidAfter("Feb") > PaidBefore("Feb")

(***************************************************************************)
(* Claims about receipts (SpecReceipts)                                    *)
(***************************************************************************)
\* a step that serves /receipt/add
ServesAddReceipt == request = NoRequest /\ request'.route = "receipt/add"

\* the receipt table the request finds, empty when its store is new
ReceiptsFound(f) == IF f \in files THEN receipt[f] ELSE {}

\* C4: a second add_receipt with a receiptKey that exists returns the number
\* the first call returned (the one stored with the row), leaves exactly one
\* row with that key and changes no student and no receipt.
C4_ReplayIsIdempotent ==
    [][ServesAddReceipt =>
          LET f == session_db_filename(request'.session)
              key == request'.data.receiptKey
              old == ReceiptsWithKey(ReceiptsFound(f), key)
          IN  /\ old # {} =>
                    /\ receipt' = receipt
                    /\ student' = student
                    /\ Cardinality(ReceiptsWithKey(receipt'[f], key)) = 1
                    /\ \A r \in old : response'.receipt_number = r.receipt_number
              /\ old = {} =>
                    \E r \in ReceiptsWithKey(receipt'[f], key) :
                        response'.receipt_number = r.receipt_number
       ]_vars

\* the response to a replayed key, for a student who still owes
C4_Witness ==
    /\ request.route = "receipt/add"
    /\ response.message = "Duplicate ignored"
    /\ \E st \in student[session_db_filename(request.session)] :
          /\ st.class_name = request.data.class_name
          /\ st.roll = request.data.roll
          /\ st.months["Jan"].due.n > 0
          /\ st.months["Jan"].paid.n > 0

\* C5: a receipt number assigned in a store is never assigned again in that
\* store, also after the receipt that had it was deleted.
C5_NumbersNeverRepeat ==
    [][(ServesAddReceipt /\ response'.message = "Receipt saved") =>
          LET f == session_db_filename(request'.session)
          IN  f \in files => response'.receipt_number \notin issued[f]
       ]_vars

\* C6: the receipts present have pairwise distinct numbers, their counters
\* increase with the order of insertion (the rowid order), and a new counter
\* is the highest receipt id present plus one, 1 for an empty table.
C6_CountersFollowInsertion ==
    [][(request = NoRequest /\ request' # NoRequest) =>
          /\ \A f \in files' : \A r1, r2 \in receipt'[f] :
                /\ r1 # r2 => r1.receipt_number # r2.receipt_number
                /\ r1.id < r2.id => r1.receipt_number.seq < r2.receipt_number.seq
          /\ (request'.route = "receipt/add" /\ response'.message = "Receipt saved") =>
                LET before == ReceiptsFound(session_db_filename(request'.session))
                IN  response'.receipt_number.seq =
                        IF before = {} THEN 1
                        ELSE (CHOOSE r \in before : \A q \in before : q.id <= r.id).id + 1
       ]_vars

\* a receipt saved into a table that held a receipt and had lost one
C6_Witness ==
    /\ request.route = "receipt/add"
    /\ response.message = "Receipt saved"
    /\ response.receipt_number.seq = 3
    /\ Cardinality(receipt[session_db_filename(request.session)]) = 2

(***************************************************************************)
(* Claims about concurrent receipts (SpecThreads)                          *)
(***************************************************************************)
\* C7: under any interleaving of add_receipt calls with distinct receiptKeys
\* on one store, no two receipts created get the same receipt number.
C7_NumbersDistinctUnderInterleaving ==
    \A f \in files : \A r1, r2 \in receipt[f] :
        (r1.id # r2.id /\ r1.receipt_key # r2.receipt_key)
            => r1.receipt_number # r2.receipt_number

(***************************************************************************)
(* Claims about students and carry-forward (Spec)                          *)
(***************************************************************************)
\* a step that serves GET /students: the session is resolved, nothing else
ServesResolve == request = NoRequest /\ request'.route = "students"

RECURSIVE DueTotal(_, _)
DueTotal(months, keys) ==
    IF keys = {} THEN 0
    ELSE LET k == CHOOSE x \in keys : TRUE
         IN  months[k].due.n + DueTotal(months, keys \ {k})

AllZeroLedger == [k \in MonthKeys |-> Entry("Due", VInt(0), VInt(0))]

\* C8: when a store is first created and the previous session's store
\* exists, every student of the previous store has a student in the new store
\* with its name, father, class_name and roll, previous_due the sum of the
\* dues of its ledger, advance 0 and an all-zero ledger.
C8_SeedingContent ==
    [][ServesResolve =>
          LET s == request'.session
              f == session_db_filename(s)
              prevf == session_db_filename(get_previous_session_name(s))
          IN  (f \notin files /\ prevf \in files) =>
                  \A p \in student[prevf] : \E n \in student'[f] :
                      /\ n.name = p.name
                      /\ n.father = p.father
                      /\ n.class_name = p.class_name
                      /\ n.roll = p.roll
                      /\ n.previous_due = DueTotal(p.months, DOMAIN p.months)
                      /\ n.advance = 0
                      /\ n.months = AllZeroLedger
       ]_vars

\* C9: copy_students_from_previous runs at most once for a store, in the
\* call that creates it; resolving an existing session runs no copy and
\* changes no student.
C9_SeedOnlyOnCreation ==
    [][/\ \A f \in files : copies'[f] = copies[f]
       /\ \A f \in files' : copies'[f] <= 1
       /\ ServesResolve => \A f \in files : student'[f] = student[f]
      ]_vars

\* an existing next session is resolved after its previous session gained a
\* student it was not seeded with
C9_Witness ==
    /\ request.route = "students"
    /\ request.session = NextSession
    /\ copies[session_db_filename(NextSession)] = 1
    /\ student[session_db_filename(NextSession)] # {}
    /\ \E p \in student[session_db_filename(home)] :
          StudentsAt(student[session_db_filename(NextSession)], p.class_name, p.roll) = {}

\* C10: no store holds two students with the same class_name and roll.
C10_UniqueClassRoll ==
    \A f \in files : \A r1, r2 \in student[f] :
        (r1.class_name = r2.class_name /\ r1.roll = r2.roll) => r1 = r2

(***************************************************************************)
(* Claims about session identifiers (SpecSessions)                         *)
(***************************************************************************)
\* a session identifier start_end whose two tokens are numbers
NumericTokens(sname) ==
    LET parts == Split(sname)
    IN  Len(parts) = 2 /\ IntOk(parts[1]) /\ IntOk(parts[2])

\* the last two digits of a year
TwoDigits(n) == << Digits[((n % 100) \div 10) + 1], Digits[(n % 10) + 1] >>

\* both year components decremented, the end as a two-digit suffix
DecrementBoth(sname) ==
    LET parts == Split(sname)
    IN  IntToStr(ParseInt(parts[1]) - 1) \o << "_" >> \o TwoDigits(ParseInt(parts[2]) - 1)

\* C11: the previous session of start_end with numeric tokens is
\* (start - 1)_(end - 1), the end written with two digits; checked for the
\* session whose store the seeding was run for.
C11_PreviousDecrementsBoth ==
    (/\ session_db_filename(home) \in files
     /\ copies[session_db_filename(home)] > 0
     /\ NumericTokens(home))
        => get_previous_session_name(home) = DecrementBoth(home)

\* C12: when a store is created for a session identifier that is not of the
\* shape start_end or has a token that is no number, the request succeeds and
\* the new store has no students.
C12_MalformedNeverSeeds ==
    [][(/\ ServesResolve
        /\ ~NumericTokens(request'.session)
        /\ session_db_filename(request'.session) \notin files)
          => /\ session_db_filename(request'.session) \in files'
             /\ student'[session_db_filename(request'.session)] = {}
             /\ response'.success
       ]_vars

\* C19: two distinct session identifiers have two distinct stores, and a
\* request under one identifier changes no student and no receipt of the
\* store of another identifier.
C19_StoresIsolated ==
    [][(request = NoRequest /\ request' # NoRequest) =>
          \A other \in SessionIds \cup {DEFAULT_SESSION} :
              (/\ other # request'.session
               /\ session_db_filename(other) \in files)
                => /\ session_db_filename(other) # session_db_filename(request'.session)
                   /\ student'[session_db_filename(other)] = student[session_db_filename(other)]
                   /\ receipt'[session_db_filename(other)] = receipt[session_db_filename(other)]
       ]_vars

(***************************************************************************)
(* Claims about the ledger functions (SpecLedger)                          *)
(***************************************************************************)
\* the due of one of the 13 entries of a ledger, 0 for a missing entry
FixedDueOf(months, k) ==
    IF k \in DOMAIN months /\ months[k].dict THEN PyInt(months[k].due) ELSE 0

RECURSIVE FixedDue(_, _)
FixedDue(months, keys) ==
    IF keys = {} THEN 0
    ELSE LET k == CHOOSE x \in keys : TRUE
         IN  FixedDueOf(months, k) + FixedDue(months, keys \ {k})

\* C13: calc_carry_forward_amount of a ledger is the sum of due over the 13
\* entries Jan..Dec and Annual, also for a ledger with missing entries or with
\* other keys.
C13_CarryIsSumOfThirteen ==
    (l_pc = "done" /\ ~l_out.carry.raised)
        => l_out.carry.value = FixedDue(l_months, MonthKeys)

\* C14: ensure_months_normalized of a ledger it returned is that ledger.
C14_NormalizeIdempotent ==
    (l_pc \in {"again", "done"} /\ ~l_out.norm.raised) => l_out.again = l_out.norm

\* normalised twice, a ledger that the first call changed and that has a key
\* other than the 13
C14_Witness ==
    /\ l_pc = "again"
    /\ ~l_out.norm.raised
    /\ l_out.norm.value # l_months
    /\ "Exam" \in DOMAIN l_months
    /\ "Jan" \in DOMAIN l_months /\ l_months["Jan"].due.t = "numstr"

\* C15: for every input ledger, ensure_months_normalized returns a ledger with
\* exactly the 13 keys, each a record with paid and due integers that are not
\* negative.
C15_NormalizedShape ==
    l_pc \in {"normalized", "again", "done"} =>
        /\ ~l_out.norm.raised
        /\ DOMAIN l_out.norm.value = MonthKeys
        /\ \A k \in MonthKeys :
              /\ l_out.norm.value[k].dict
              /\ l_out.norm.value[k].paid.t = "int" /\ l_out.norm.value[k].paid.n >= 0
              /\ l_out.norm.value[k].due.t = "int" /\ l_out.norm.value[k].due.n >= 0

(***************************************************************************)
(* Claims about receipts and students (SpecReceipts)                       *)
(***************************************************************************)
\* the student table the request finds, empty when its store is new
StudentsFound(f) == IF f \in files THEN student[f] ELSE {}

\* a step that serves /receipt/add with a receiptKey that no receipt has
ServesNewReceipt ==
    /\ ServesAddReceipt
    /\ ReceiptsWithKey(ReceiptsFound(session_db_filename(request'.session)),
                       request'.data.receiptKey) = {}

\* C16: after add_receipt with a new receiptKey for a student of the store,
\* in every session, the student's stored ledger and previous_due are the
\* result of Apply on its ledger and previous_due with totalPaid, and its
\* stored annual_charge is the Annual.paid of the new ledger.
C16_StudentUpdatedByReceipt ==
    [][ServesNewReceipt =>
          LET f == session_db_filename(request'.session)
              data == request'.data
          IN  \A st \in StudentsAt(StudentsFound(f), data.class_name, data.roll) :
                  LET r == apply_payment_to_student_months_and_prev(
                               st.months, st.previous_due, data.totalPaid)
                  IN  \E n \in student'[f] :
                          /\ n.id = st.id
                          /\ n.months = r.months
                          /\ n.previous_due = r.prev_due
                          /\ n.annual_charge = r.months["Annual"].paid.n
       ]_vars

\* C17: add_receipt with a new receiptKey and no student with the payload's
\* class_name and roll in the store records the receipt with a number,
\* succeeds, and leaves every student of the store as it was.
C17_ReceiptWithoutStudent ==
    [][ServesNewReceipt =>
          LET f == session_db_filename(request'.session)
              data == request'.data
          IN  StudentsAt(StudentsFound(f), data.class_name, data.roll) = {} =>
                  /\ response'.success
                  /\ response'.receipt_number.seq >= 1
                  /\ \E r \in receipt'[f] :
                        /\ r.receipt_key = data.receiptKey
                        /\ r.receipt_number = response'.receipt_number
                        /\ r \notin ReceiptsFound(f)
                  /\ student'[f] = StudentsFound(f)
                  /\ \A g \in files : student'[g] = student[g]
       ]_vars

\* a receipt saved for (A, 2) in a store whose only student is (A, 1)
C17_Witness ==
    /\ request.route = "receipt/add"
    /\ response.message = "Receipt saved"
    /\ request.data.roll = "2"
    /\ StudentsAt(student[session_db_filename(request.session)], "A", "2") = {}
    /\ StudentsAt(student[session_db_filename(request.session)], "A", "1") # {}

\* C18: after delete_student(class, roll) succeeds, in every session, the
\* store holds no receipt recorded for that class_name and roll, and the
\* receipts of other students are as they were.
C18_DeleteStudentCascades ==
    [][(request = NoRequest /\ request'.route = "student/delete" /\ response'.success) =>
          LET f == session_db_filename(request'.session)
              Mine(r) == r.class_name = request'.class_name /\ r.roll = request'.roll
          IN  /\ \A r \in receipt'[f] : ~Mine(r)
              /\ { r \in receipt'[f] : ~Mine(r) } = { r \in ReceiptsFound(f) : ~Mine(r) }
       ]_vars

(***************************************************************************)
(* Claims about concurrent first requests (SpecSeedThreads)                *)
(***************************************************************************)
\* C20: when two requests resolve the same new session at the same time and
\* both run the seeding, under every interleaving the new store has at most
\* one student for each class_name and roll of the previous store.
C20_SeedingNeverDuplicates ==
    (NewFile \in files /\ session_db_filename(home) \in files) =>
        \A p \in student[session_db_filename(home)] :
            Cardinality(StudentsAt(student[NewFile], p.class_name, p.roll)) <= 1

(***************************************************************************)
(* Receipts of two request threads for an enrolled student                 *)
(***************************************************************************)
\* every request thread has finished its writes
Quiescent == \A t \in Threads : t_pc[t] \in {"idle", "done"}

\* what a student row owes: previous_due and the ledger
Owed(row) == [months |-> row.months, previous_due |-> row.previous_due]

\* the student as POST /student/add stored it
EnrolledStudent == FirstRow(EnrolledDB(home).student[HomeFile])

ReceiptsOf(row) ==
    { r \in receipt[HomeFile] : r.class_name = row.class_name /\ r.roll = row.roll }

PaidOnto(owed, payment) ==
    LET r == apply_payment_to_student_months_and_prev(
                 owed.months, owed.previous_due, payment)
    IN  [months |-> r.months, previous_due |-> r.prev_due]

\* the results of applying the receipts' payments one after the other, in
\* every order
RECURSIVE SeqOutcomes(_, _)
SeqOutcomes(owed, rs) ==
    IF rs = {} THEN { owed }
    ELSE UNION { SeqOutcomes(PaidOnto(owed, r.total_paid), rs \ {r}) : r \in rs }

\* C21: when receipts with distinct keys for one student are recorded by
\* concurrent requests in one store, then once the requests have finished the
\* student's previous_due and ledger are the result of applying the payments
\* of all recorded receipts one after the other in some order.
C21_NoPaymentLost ==
    Quiescent =>
        \A st \in student[HomeFile] :
            Owed(st) \in SeqOutcomes(Owed(EnrolledStudent), ReceiptsOf(st))

RECURSIVE SumPaid(_)
SumPaid(rs) ==
    IF rs = {} THEN 0
    ELSE LET r == CHOOSE x \in rs : TRUE IN r.total_paid + SumPaid(rs \ {r})

RECURSIVE LedgerPaid(_, _)
LedgerPaid(months, i) ==
    IF i = 0 THEN 0
    ELSE months[CalendarOrder[i]].paid.n + LedgerPaid(months, i - 1)

\* what the student has been credited with since enrolment
Credited(st) ==
    (EnrolledStudent.previous_due - st.previous_due)
        + LedgerPaid(st.months, 13) - LedgerPaid(EnrolledStudent.months, 13)

\* C27: when requests with the same receiptKey run concurrently on one store,
\* at most one receipt row with that key exists, and the student is credited
\* with no more than the payments of the receipt rows recorded for it.
C27_OncePerKeyUnderInterleaving ==
    /\ \A k \in ReceiptKeys : Cardinality(ReceiptsWithKey(receipt[HomeFile], k)) <= 1
    /\ \A st \in student[HomeFile] : Credited(st) <= SumPaid(ReceiptsOf(st))

\* both threads passed the duplicate check with one key; one inserted the
\* receipt and the other's INSERT raised
C27_Witness ==
    \E t, u \in Threads :
        /\ t # u
        /\ t_pc[t] = "done" /\ t_pc[u] = "done"
        /\ t_data[t].receiptKey = t_data[u].receiptKey
        /\ t_resp[t].message = "IntegrityError"
        /\ t_resp[u].message = "Receipt saved"
        /\ Cardinality(ReceiptsWithKey(receipt[HomeFile], t_data[t].receiptKey)) = 1
        /\ \E st \in student[HomeFile] : Credited(st) = t_data[u].totalPaid

(***************************************************************************)
(* Claims about a seeding in which one student raises (SpecCarry)          *)
(***************************************************************************)
\* C22: when a store is first created and the seeding of one student of the
\* previous store fails, the store exists afterwards and every student of
\* the previous store whose own seeding does not fail has a student in the
\* new store.
C22_SeedingToleratesOneFailure ==
    [][ServesResolve =>
          LET s == request'.session
              f == session_db_filename(s)
              prevf == session_db_filename(get_previous_session_name(s))
          IN  (f \notin files /\ prevf \in files) =>
                  /\ f \in files'
                  /\ \A p \in student[prevf] :
                        ~CarryRaises(p.months) =>
                            StudentsAt(student'[f], p.class_name, p.roll) # {}
       ]_vars

(***************************************************************************)
(* Claims about the allocator's effect on its argument (SpecApply)         *)
(***************************************************************************)
\* C23: a call of apply_payment_to_student_months_and_prev leaves the ledger
\* the caller passed as it was before the call, and the result is the one
\* that any call with these arguments returns.
C23_ApplyIsPure ==
    a_pc = "done" =>
        /\ a_ledger = a_months
        /\ a_result =
               apply_payment_to_student_months_and_prev(a_months, a_prev_due, a_payment)

(***************************************************************************)
(* Claims about update_student's frame (Spec)                              *)
(***************************************************************************)
\* a step that serves POST /update_student
ServesUpdate == request = NoRequest /\ request'.route = "update_student"

\* the fields of a student that the payload may name
OptionalFields == { "name", "father", "previous_due", "advance", "months" }

\* C24: an update_student call, in the default and in every other session,
\* leaves each field that the payload omits as it was stored, leaves the
\* students it does not name as they were, and changes no student when no
\* student has the class and roll it names.
C24_UpdateKeepsOmittedFields ==
    [][ServesUpdate =>
          LET f == session_db_filename(request'.session)
              stored == IF f \in files THEN student[f] ELSE {}
              hit == StudentsAt(stored, request'.class_name, request'.roll)
          IN  /\ \A st \in stored \ hit : st \in student'[f]
              /\ { n.id : n \in student'[f] } = { st.id : st \in stored }
              /\ \A st \in hit : \E n \in student'[f] :
                    /\ n.id = st.id
                    /\ \A field \in OptionalFields \ request'.sdata.has :
                          n[field] = st[field]
       ]_vars

(***************************************************************************)
(* Claims about receipts with a totalPaid of either sign                   *)
(* (SpecSignedReceipts)                                                    *)
(***************************************************************************)
\* C25: after an add_receipt call with any integer totalPaid, no student's
\* previous_due is greater than before the call and no entry of a student's
\* ledger has a due greater than before.
C25_ReceiptNeverRaisesDebt ==
    [][ServesAddReceipt =>
          LET f == session_db_filename(request'.session)
              stored == IF f \in files THEN student[f] ELSE {}
          IN  \A st \in stored : \E n \in student'[f] :
                  /\ n.id = st.id
                  /\ n.previous_due <= st.previous_due
                  /\ \A k \in MonthKeys : n.months[k].due.n <= st.months[k].due.n
       ]_vars

(***************************************************************************)
(* Claims about repeated create_auto calls (SpecAuto)                      *)
(***************************************************************************)
\* a step that serves POST /session/create_auto
ServesAuto == request = NoRequest /\ request'.route = "session/create_auto"

\* C26: a create_auto_session call for a session whose store an earlier call
\* with the same from_session and extra_fee created leaves the previous_due
\* of every student of that store as the earlier call left it.
C26_CreateAutoIdempotent ==
    [][(ServesAuto /\ NewFile \in files) =>
          \A st \in student[NewFile] : \E n \in student'[NewFile] :
              n.id = st.id /\ n.previous_due = st.previous_due
       ]_vars

====
